---- MODULE Spec2Model ----
(***************************************************************************)
(* Point-of-sale cart and checkout of the shop management application      *)
(* (src/testapp.py, POS page; src/app.py has the same cart and commit      *)
(* loop).  Every user action is one rerun of the page script for one       *)
(* browser session.  The cart lives in that session's st.session_state;    *)
(* the products and sales tables live in one PostgreSQL database reached   *)
(* through one cached connection shared by all sessions.  A checkout is a  *)
(* sequence of run_query calls, so the checkouts of different sessions     *)
(* interleave between statements.                                          *)
(***************************************************************************)
EXTENDS Integers, Sequences, FiniteSets, TLC

\* ---------------------------------------------------------------- bounds
\* largest quantity a cart line is let grow to
MaxLineQty == 3
\* largest number of line items (cart lines and sales rows) in the system
MaxItems == 2

Sessions == {1, 2}
Products == {1, 2}
None == "None"

VARIABLES
    products,   \* products table: product_id -> [name, price, quantity]
    customers,  \* customers table: rows [customer_id, name, contact, address]
    sales,      \* sales table, in insertion order
    conn,       \* the cached psycopg2 connection: "ok" or "failed"
    cart,       \* st.session_state.cart of each session
    pc,         \* where each session's script is: "idle" between reruns,
                \* "update" / "insert" / "receipt" inside Complete Sale
    idx,        \* position of the commit loop in the cart
    selected_customer_id,
    sale,       \* history: what the session's current or last rerun did and showed
    added,      \* history: the quantity added to each product's line since it began
    now,        \* the clock, in seconds
    files,      \* receipt files in the working directory: name -> content
    receipt_file,   \* the local receipt_file of each session's Complete Sale
    last_receipt,   \* st.session_state['last_receipt'] of each session
    stats_cache,    \* the st.cache_data entry of get_dashboard_stats
    stats_seen,     \* history: what each session's last sidebar showed
    repair_orders,  \* repair_orders table: order_id -> status
    repair_page,    \* what the Repair Orders page last rendered for each session
    repair_run      \* the rerun of the Repair Orders page a session is in

\* what the point of sale leaves alone, apart from the receipt step
others == <<now, files, receipt_file, last_receipt, stats_cache, stats_seen,
            repair_orders, repair_page, repair_run>>

vars == <<products, customers, sales, conn, cart, pc, idx,
          selected_customer_id, sale, added, now, files, receipt_file, last_receipt,
          stats_cache, stats_seen, repair_orders, repair_page, repair_run>>

\* ------------------------------------------------------------- helpers
\* sum(...) over a list of numbers
RECURSIVE SumSeq(_)
SumSeq(s) == IF s = <<>> THEN 0 ELSE Head(s) + SumSeq(Tail(s))

\* a pop that takes the last element whatever the index
RemoveLast(s, k) == SubSeq(s, 1, Len(s) - 1)

\* list.pop(k) for a position k of the list: the list that is left
RemoveAt(s, k) == [j \in 1..(Len(s) - 1) |-> IF j < k THEN s[j] ELSE s[j + 1]]

\* a pop that takes the last element when the index is past the end
PopClamped(c, k) ==
    IF k \in 1..Len(c)
    THEN [error |-> None, cart |-> RemoveAt(c, k)]
    ELSE [error |-> None, cart |-> RemoveAt(c, Len(c))]

\* list.pop(k) for any k >= 1 (Python index k - 1 >= 0): past the end it raises
\* IndexError and the list is as it was
Pop(c, k) ==
    IF k \in 1..Len(c)
    THEN [error |-> None, cart |-> RemoveAt(c, k)]
    ELSE [error |-> "IndexError", cart |-> c]

\* the commit loop taken from the last line to the first
LoopItemReversed(c, i) == c[Len(c) + 1 - i]

\* for item in st.session_state.cart: the item of the i-th iteration
LoopItem(c, i) == c[i]

InitProducts ==
    [p \in Products |->
        [name |-> IF p = 1 THEN "watch" ELSE "phone",
         price |-> IF p = 1 THEN 10 ELSE 25,
         quantity |-> 5]]

\* customer_data = None
NoCustomerData == [given |-> FALSE, name |-> <<>>, contact |-> None, address |-> None]

\* no add, no remove and no checkout in the session's last rerun
NoSale ==
    [outcome |-> "none", lines |-> <<>>, avail |-> <<>>, log |-> <<>>,
     index |-> 0, display |-> <<>>, customer |-> NoCustomerData,
     receipt |-> "none", total |-> 0]

NoAdds == [p \in Products |-> 0]

\* SELECT ... FROM products WHERE quantity > 0
InStock == {p \in Products : products[p].quantity > 0}

\* st.number_input("Quantity", min_value=0, ...): a lower limit of 0
QtyInputFromZero(max_qty) == 0..max_qty

\* st.number_input("Quantity", min_value=1, max_value=max_qty, value=1)
QtyInput(max_qty) == 1..max_qty

\* next((item for item in cart if item['product_id'] == pid), None):
\* the position of the first such line, 0 for None
FindLine(c, pid) ==
    IF \E k \in 1..Len(c) : c[k].product_id = pid
    THEN CHOOSE k \in 1..Len(c) :
            /\ c[k].product_id = pid
            /\ \A j \in 1..(k - 1) : c[j].product_id # pid
    ELSE 0

\* a merge that overwrites the quantity instead of adding to it
MergeLineOverwrite(item, qty) ==
    [item EXCEPT !.quantity = qty, !.total = qty * item.price]

\* a merge that leaves the stored total as it was
MergeLineStaleTotal(item, qty) ==
    [item EXCEPT !.quantity = item.quantity + qty]

\* existing_item['quantity'] += qty; existing_item['total'] = quantity * price
MergeLine(item, qty) ==
    [item EXCEPT !.quantity = item.quantity + qty,
                 !.total = (item.quantity + qty) * item.price]

\* cart_item = {...}
NewLine(pid, row, qty) ==
    [product_id |-> pid, name |-> row.name, price |-> row.price,
     quantity |-> qty, total |-> qty * row.price]

\* an add that appends a line whether or not the product is in the cart
AddItemAlwaysAppend(c, pid, row, qty) == Append(c, NewLine(pid, row, qty))

\* an add that takes the price it has just read into the line it merges into
AddItemRefreshPrice(c, pid, row, qty) ==
    LET k == FindLine(c, pid)
    IN  IF k # 0
        THEN [c EXCEPT ![k] = [MergeLine(c[k], qty) EXCEPT
                                    !.price = row.price,
                                    !.total = (c[k].quantity + qty) * row.price]]
        ELSE Append(c, NewLine(pid, row, qty))

\* the body of the Add to Cart handler
AddItem(c, pid, row, qty) ==
    LET k == FindLine(c, pid)
    IN  IF k # 0
        THEN [c EXCEPT ![k] = MergeLine(c[k], qty)]
        ELSE Append(c, NewLine(pid, row, qty))

\* a cart block shown whether or not the cart holds anything
CartBlockShownAlways(s) == InStock # {}

\* `if not products: ... else:` and `if st.session_state.cart:`: the cart
\* block (the lines, Clear Cart, Complete Sale) is rendered only if products
\* are in stock and the cart is non-empty
CartBlockShown(s) == InStock # {} /\ cart[s] # <<>>

\* a total that adds up the unit prices
GrandTotalOfPrices(c) == SumSeq([k \in 1..Len(c) |-> c[k].price])

\* grand_total = sum(item['total'] for item in cart)
GrandTotal(c) == SumSeq([k \in 1..Len(c) |-> c[k].total])

\* the row INSERT INTO sales (product_id, quantity, total_price, customer_id) writes
SaleRow(item, cid) ==
    [product_id |-> item.product_id, quantity |-> item.quantity,
     total_price |-> item.total, customer_id |-> cid]

\* UPDATE products SET quantity = quantity - %s WHERE product_id = %s
Decrement(row, qty) == [row EXCEPT !.quantity = row.quantity - qty]

\* Text is a sequence of pieces; "(ID: " and ")" are pieces of their own.
WalkIn == <<"Walk-in Customer">>

\* the position of the first piece of t equal to sep, 0 if there is none
FirstAt(t, sep) ==
    IF \E k \in 1..Len(t) : t[k] = sep
    THEN CHOOSE k \in 1..Len(t) :
            /\ t[k] = sep
            /\ \A j \in 1..(k - 1) : t[j] # sep
    ELSE 0

\* t.split(sep)[0]
SplitFirst(t, sep) ==
    IF FirstAt(t, sep) = 0 THEN t ELSE SubSeq(t, 1, FirstAt(t, sep) - 1)

\* t.split(sep)[1], for a text that holds sep
SplitSecond(t, sep) == SplitFirst(SubSeq(t, FirstAt(t, sep) + 1, Len(t)), sep)

\* int(text): ids are written as their decimal numerals
IntOf(t) ==
    IF Len(t) = 1 /\ t[1] \in {"0", "1", "2", "3", "4", "5", "6", "7", "8", "9"}
    THEN t[1]
    ELSE "ValueError"

\* f"{c[1]} (ID: {c[0]})"
CustomerDisplay(c) == c.name \o <<" ", "(ID: ", c.customer_id, ")">>

\* customer_options: "Walk-in Customer" and one option per row of the
\* customers table; with no customers there is no selectbox
CustomerOptions == {WalkIn} \cup {CustomerDisplay(c) : c \in customers}

\* selected_customer_id of a selected option
SelectedCustomerId(d) ==
    IF d # WalkIn
    THEN IntOf(SplitFirst(SplitSecond(d, "(ID: "), ")"))
    ELSE None

\* customer_data of a selected option; absent keys of the dict read as None,
\* `given` is the truth value of customer_data
CustomerData(d) ==
    IF d # WalkIn
    THEN LET found == {c \in customers : c.customer_id = SelectedCustomerId(d)}
         IN  IF found # {}
             THEN LET c == CHOOSE c \in found : TRUE
                  IN  [given |-> TRUE, name |-> c.name,
                       contact |-> c.contact, address |-> c.address]
             ELSE NoCustomerData
    ELSE [given |-> TRUE, name |-> WalkIn, contact |-> None, address |-> None]

\* the quantity a cart holds of a product
QtyInCart(c, pid) ==
    SumSeq([k \in 1..Len(c) |-> IF c[k].product_id = pid THEN c[k].quantity ELSE 0])

\* cart lines of the sessions in S
RECURSIVE CartLines(_)
CartLines(S) ==
    IF S = {} THEN 0
    ELSE LET t == CHOOSE t \in S : TRUE
         IN  Len(cart[t]) + CartLines(S \ {t})

\* cart lines the running commit loops of the sessions in S have yet to record
RECURSIVE Pending(_)
Pending(S) ==
    IF S = {} THEN 0
    ELSE LET t == CHOOSE t \in S : TRUE
         IN  (IF pc[t] \in {"update", "insert"} THEN Len(cart[t]) - idx[t] + 1 ELSE 0)
             + Pending(S \ {t})

\* -------------------------------------------- the rest of the application
Orders == {1}

\* a receipt document: what generate_professional_receipt was given to draw
NoDocument == [items |-> <<>>, total |-> 0, customer |-> NoCustomerData]

\* 'last_receipt' not in st.session_state
NoReceipt == [stored |-> FALSE, data |-> NoDocument, filename |-> 0, total |-> 0]

\* the dict get_dashboard_stats returns when the query gave nothing
ZeroStats ==
    [customers |-> 0, products |-> 0, stock |-> 0,
     pending_orders |-> 0, today_sales |-> 0, today_revenue |-> 0]

\* nothing cached for get_dashboard_stats
NoStats == [cached |-> FALSE, at |-> 0, value |-> ZeroStats]

\* the session has not rendered a sidebar yet
NotSeen == [read |-> FALSE, value |-> ZeroStats, actual |-> ZeroStats]

\* the session has not opened the Repair Orders page: no order is shown
NoPage == [view |-> [o \in Orders |-> "absent"], confirm |-> 0]

\* the session is in no rerun of the Repair Orders page
NoRun ==
    [step |-> "idle", click |-> "none", order |-> 0, new_status |-> "none",
     cur |-> [o \in Orders |-> "absent"], wrote |-> "none"]

InitOthers ==
    /\ now = 0
    /\ files = [n \in {} |-> NoDocument]
    /\ receipt_file = [s \in Sessions |-> 0]
    /\ last_receipt = [s \in Sessions |-> NoReceipt]
    /\ stats_cache = NoStats
    /\ stats_seen = [s \in Sessions |-> NotSeen]
    /\ repair_orders = [o \in Orders |-> "absent"]
    /\ repair_page = [s \in Sessions |-> NoPage]
    /\ repair_run = [s \in Sessions |-> NoRun]

\* ------------------------------------------------- dashboard statistics
\* @st.cache_data(ttl=60)
Ttl == 60
\* how many half-ttl steps the clock is let run
MaxTicks == 2

\* the row the query of get_dashboard_stats selects (every sale is of today)
CurrentStats ==
    [customers |-> Cardinality(customers),
     products |-> Cardinality(Products),
     stock |-> SumSeq([p \in 1..Cardinality(Products) |-> products[p].quantity]),
     pending_orders |-> Cardinality({o \in Orders : repair_orders[o] = "Pending"}),
     today_sales |-> Len(sales),
     today_revenue |-> SumSeq([k \in 1..Len(sales) |-> sales[k].total_price])]

\* the body of get_dashboard_stats: run_query returns None on a failed connection
QueryStats == IF conn = "ok" THEN CurrentStats ELSE ZeroStats

\* st.cache_data: the entry is used until it is ttl seconds old
CacheFresh == stats_cache.cached /\ now - stats_cache.at < Ttl

\* what a call of get_dashboard_stats returns, and the cache after the call
GetDashboardStats == IF CacheFresh THEN stats_cache.value ELSE QueryStats
CacheAfterCall ==
    IF CacheFresh
    THEN stats_cache
    ELSE [cached |-> TRUE, at |-> now, value |-> QueryStats]

\* every rerun of the script draws the sidebar first: stats = get_dashboard_stats()
Sidebar ==
    /\ stats_cache' = CacheAfterCall
    /\ UNCHANGED <<now, files, receipt_file, last_receipt, stats_seen,
                   repair_orders, repair_page, repair_run>>

\* ---------------------------------------------------------------- Init
Init ==
    /\ InitOthers
    /\ products = InitProducts
    /\ customers = {}
    /\ sales = <<>>
    /\ conn = "ok"
    /\ cart = [s \in Sessions |-> <<>>]
    /\ pc = [s \in Sessions |-> "idle"]
    /\ idx = [s \in Sessions |-> 0]
    /\ selected_customer_id = [s \in Sessions |-> None]
    /\ sale = [s \in Sessions |-> NoSale]
    /\ added = [s \in Sessions |-> NoAdds]

\* ------------------------------------------------------------- actions
\* Every user action is a rerun that first reads the products in stock through
\* the connection; on a failed connection the page shows no POS widgets.

\* an add that also takes the quantity out of the product's stock
AddToCartReserving(s) ==
    /\ pc[s] = "idle"
    /\ conn = "ok"
    /\ \E p \in InStock :
        \E qty \in QtyInput(products[p].quantity) :
            /\ QtyInCart(cart[s], p) + qty <= MaxLineQty
            /\ FindLine(cart[s], p) = 0 =>
                    Len(sales) + CartLines(Sessions) < MaxItems
            /\ cart' = [cart EXCEPT ![s] = AddItem(cart[s], p, products[p], qty)]
            /\ added' = [added EXCEPT ![s][p] = @ + qty]
            /\ sale' = [sale EXCEPT ![s] =
                        [NoSale EXCEPT !.outcome =
                            IF FindLine(cart[s], p) = 0 THEN "added" ELSE "merged"]]
            /\ products' = [products EXCEPT ![p] = Decrement(products[p], qty)]
    /\ UNCHANGED <<customers, sales, conn, pc, idx, selected_customer_id>>
    /\ Sidebar

\* an add that is refused once the session has completed a sale
AddToCartOnce(s) ==
    /\ pc[s] = "idle"
    /\ conn = "ok"
    /\ sale[s].outcome # "success"
    /\ \E p \in InStock :
        \E qty \in QtyInput(products[p].quantity) :
            /\ QtyInCart(cart[s], p) + qty <= MaxLineQty
            /\ FindLine(cart[s], p) = 0 =>
                    Len(sales) + CartLines(Sessions) < MaxItems
            /\ cart' = [cart EXCEPT ![s] = AddItem(cart[s], p, products[p], qty)]
            /\ added' = [added EXCEPT ![s][p] = @ + qty]
            /\ sale' = [sale EXCEPT ![s] =
                        [NoSale EXCEPT !.outcome =
                            IF FindLine(cart[s], p) = 0 THEN "added" ELSE "merged"]]
    /\ UNCHANGED <<products, customers, sales, conn, pc, idx, selected_customer_id>>
    /\ Sidebar

AddToCart(s) ==
    /\ pc[s] = "idle"
    /\ conn = "ok"
    /\ \E p \in InStock :
        \E qty \in QtyInput(products[p].quantity) :
            /\ QtyInCart(cart[s], p) + qty <= MaxLineQty
            /\ FindLine(cart[s], p) = 0 =>
                    Len(sales) + CartLines(Sessions) < MaxItems
            /\ cart' = [cart EXCEPT ![s] = AddItem(cart[s], p, products[p], qty)]
            /\ added' = [added EXCEPT ![s][p] = @ + qty]
            /\ sale' = [sale EXCEPT ![s] =
                        [NoSale EXCEPT !.outcome =
                            IF FindLine(cart[s], p) = 0 THEN "added" ELSE "merged"]]
    /\ UNCHANGED <<products, customers, sales, conn, pc, idx, selected_customer_id>>
    /\ Sidebar

RemoveFromCart(s) ==
    /\ pc[s] = "idle"
    /\ conn = "ok"
    /\ CartBlockShown(s)
    /\ \E k \in 1..Len(cart[s]) :
        /\ cart' = [cart EXCEPT ![s] = Pop(cart[s], k).cart]
        /\ added' = [added EXCEPT ![s][cart[s][k].product_id] = 0]
        /\ sale' = [sale EXCEPT ![s] =
                    [NoSale EXCEPT !.outcome = "removed", !.index = k]]
    /\ UNCHANGED <<products, customers, sales, conn, pc, idx, selected_customer_id>>
    /\ Sidebar

ClearCart(s) ==
    /\ pc[s] = "idle"
    /\ conn = "ok"
    /\ CartBlockShown(s)
    /\ cart' = [cart EXCEPT ![s] = <<>>]
    /\ added' = [added EXCEPT ![s] = NoAdds]
    /\ sale' = [sale EXCEPT ![s] = NoSale]
    /\ UNCHANGED <<products, customers, sales, conn, pc, idx, selected_customer_id>>
    /\ Sidebar

\* Complete Sale is clicked: the rerun reaches the button and enters the loop.
CompleteSale(s) ==
    /\ pc[s] = "idle"
    /\ conn = "ok"
    /\ CartBlockShown(s)
    /\ Len(sales) + Pending(Sessions) + Len(cart[s]) <= MaxItems
    /\ \E d \in CustomerOptions :
        /\ SelectedCustomerId(d) # "ValueError"
        /\ selected_customer_id' =
                [selected_customer_id EXCEPT ![s] = SelectedCustomerId(d)]
        /\ sale' = [sale EXCEPT ![s] =
                    [NoSale EXCEPT
                        !.outcome = "running", !.lines = cart[s],
                        !.avail = [k \in 1..Len(cart[s]) |->
                                     products[cart[s][k].product_id].quantity],
                        !.display = d, !.customer = CustomerData(d),
                        !.total = GrandTotal(cart[s])]]
    /\ pc' = [pc EXCEPT ![s] = IF cart[s] = <<>> THEN "receipt" ELSE "update"]
    /\ idx' = [idx EXCEPT ![s] = 1]
    /\ UNCHANGED <<products, customers, sales, conn, cart, added>>
    /\ Sidebar

\* run_query(UPDATE ...): the statement commits, or raises inside run_query,
\* which shows the error and returns None; the loop goes on either way.
UpdateInventory(s) ==
    /\ pc[s] = "update"
    /\ LET item == LoopItem(cart[s], idx[s])
           p == item.product_id
       IN  \/ /\ conn = "ok"
              /\ products' = [products EXCEPT ![p] = Decrement(products[p], item.quantity)]
              /\ sale' = [sale EXCEPT ![s].log = Append(@,
                            [op |-> "update", line |-> idx[s], ok |-> TRUE,
                             product_id |-> p, pos |-> 0,
                             effect |-> products[p].quantity - products'[p].quantity])]
              /\ UNCHANGED conn
           \/ /\ conn' = "failed"
              /\ sale' = [sale EXCEPT ![s].log = Append(@,
                            [op |-> "update", line |-> idx[s], ok |-> FALSE,
                             product_id |-> p, pos |-> 0, effect |-> None])]
              /\ UNCHANGED products
    /\ pc' = [pc EXCEPT ![s] = "insert"]
    /\ UNCHANGED <<customers, sales, cart, idx, selected_customer_id, added>>
    /\ UNCHANGED others

\* an INSERT that is tried again for as long as it raises
RecordSaleRetry(s) ==
    /\ pc[s] = "insert"
    /\ LET item == LoopItem(cart[s], idx[s])
       IN  \/ /\ conn = "ok"
              /\ sales' = Append(sales, SaleRow(item, selected_customer_id[s]))
              /\ sale' = [sale EXCEPT ![s].log = Append(@,
                            [op |-> "insert", line |-> idx[s], ok |-> TRUE,
                             product_id |-> item.product_id,
                             pos |-> Len(sales'),
                             effect |-> sales'[Len(sales')]])]
              /\ UNCHANGED conn
              /\ IF idx[s] < Len(cart[s])
                 THEN /\ idx' = [idx EXCEPT ![s] = @ + 1]
                      /\ pc' = [pc EXCEPT ![s] = "update"]
                 ELSE /\ pc' = [pc EXCEPT ![s] = "receipt"]
                      /\ UNCHANGED idx
           \/ /\ conn' = "failed"
              /\ UNCHANGED <<sales, sale, idx, pc>>
    /\ UNCHANGED <<products, customers, cart, selected_customer_id, added>>
    /\ UNCHANGED others

\* run_query(INSERT INTO sales ...), then the next line or the end of the loop
RecordSale(s) ==
    /\ pc[s] = "insert"
    /\ LET item == LoopItem(cart[s], idx[s])
       IN  \/ /\ conn = "ok"
              /\ sales' = Append(sales, SaleRow(item, selected_customer_id[s]))
              /\ sale' = [sale EXCEPT ![s].log = Append(@,
                            [op |-> "insert", line |-> idx[s], ok |-> TRUE,
                             product_id |-> item.product_id,
                             pos |-> Len(sales'),
                             effect |-> sales'[Len(sales')]])]
              /\ UNCHANGED conn
           \/ /\ conn' = "failed"
              /\ sale' = [sale EXCEPT ![s].log = Append(@,
                            [op |-> "insert", line |-> idx[s], ok |-> FALSE,
                             product_id |-> item.product_id, pos |-> 0,
                             effect |-> None])]
              /\ UNCHANGED sales
    /\ IF idx[s] < Len(cart[s])
       THEN /\ idx' = [idx EXCEPT ![s] = @ + 1]
            /\ pc' = [pc EXCEPT ![s] = "update"]
       ELSE /\ pc' = [pc EXCEPT ![s] = "receipt"]
            /\ UNCHANGED idx
    /\ UNCHANGED <<products, customers, cart, selected_customer_id, added>>
    /\ UNCHANGED others

\* generate_professional_receipt returns: the success message, then the file
\* is read into last_receipt, or reading it raises and a warning is shown; the
\* cart is reset either way.  Or generate_professional_receipt raises: the
\* outer except shows "Sale processing failed" and the cart is not reset.
GenerateReceipt(s) ==
    /\ pc[s] = "receipt"
    /\ \/ /\ \E r \in {"stored", "unreadable"} :
                sale' = [sale EXCEPT ![s].outcome = "success", ![s].receipt = r]
          /\ cart' = [cart EXCEPT ![s] = <<>>]
          /\ added' = [added EXCEPT ![s] = NoAdds]
       \/ /\ sale' = [sale EXCEPT ![s].outcome = "failed", ![s].receipt = "raised"]
          /\ UNCHANGED <<cart, added>>
    /\ pc' = [pc EXCEPT ![s] = "idle"]
    /\ idx' = [idx EXCEPT ![s] = 0]
    /\ selected_customer_id' = [selected_customer_id EXCEPT ![s] = None]
    /\ UNCHANGED <<products, customers, sales, conn>>
    /\ UNCHANGED others

Next ==
    \E s \in Sessions :
        \/ AddToCart(s)
        \/ RemoveFromCart(s)
        \/ ClearCart(s)
        \/ CompleteSale(s)
        \/ UpdateInventory(s)
        \/ RecordSale(s)
        \/ GenerateReceipt(s)

Spec == Init /\ [][Next]_vars

\* Every store call and the receipt step return or raise: a session that is
\* inside Complete Sale takes its next step.
SpecFair ==
    /\ Spec
    /\ \A s \in Sessions :
            WF_vars(UpdateInventory(s) \/ RecordSale(s) \/ GenerateReceipt(s))

\* ------------------------------------- the shop has registered customers
\* rows the Customers page has inserted: the name is the free text of the
\* "Full Name" field, contact and address are optional
InitCustomers ==
    {[customer_id |-> "1", name |-> <<"Asha">>,
      contact |-> "9815267856", address |-> "Pune"],
     [customer_id |-> "2", name |-> <<"Ravi", " ", "(ID: ", "1", ")">>,
      contact |-> None, address |-> None]}

InitCust ==
    /\ InitOthers
    /\ products = InitProducts
    /\ customers = InitCustomers
    /\ sales = <<>>
    /\ conn = "ok"
    /\ cart = [s \in Sessions |-> <<>>]
    /\ pc = [s \in Sessions |-> "idle"]
    /\ idx = [s \in Sessions |-> 0]
    /\ selected_customer_id = [s \in Sessions |-> None]
    /\ sale = [s \in Sessions |-> NoSale]
    /\ added = [s \in Sessions |-> NoAdds]

SpecCust == InitCust /\ [][Next]_vars

\* ------------------------------------------- prices change in the inventory
\* The page reads name and price from the products table in every rerun; the
\* application itself never updates a price, another client of the database
\* can.  One cashier, and each price is changed at most once.
Cashier == CHOOSE s \in Sessions : TRUE

PriceChanged(p) ==
    /\ products[p].price = InitProducts[p].price
    /\ products' = [products EXCEPT ![p].price = @ + 5]
    /\ UNCHANGED <<customers, sales, conn, cart, pc, idx, selected_customer_id,
                   sale, added>>
    /\ UNCHANGED others

NextPrice ==
    \/ \E p \in Products : PriceChanged(p)
    \/ AddToCart(Cashier)
    \/ RemoveFromCart(Cashier)
    \/ CompleteSale(Cashier)
    \/ UpdateInventory(Cashier)
    \/ RecordSale(Cashier)
    \/ GenerateReceipt(Cashier)

SpecPrice == Init /\ [][NextPrice]_vars

\* ------------------------------------------------ the Repair Orders page
posvars == <<products, sales, cart, pc, idx, selected_customer_id, sale, added>>

Statuses == {"Pending", "In Progress", "Completed", "Returned"}

\* a status selectbox that offers "Returned" as well
AvailableStatusesWithReturned == {"Pending", "In Progress", "Completed", "Returned"}

\* available_statuses = ["Pending", "In Progress", "Completed"]
AvailableStatuses == {"Pending", "In Progress", "Completed"}

\* the widgets a rendered page offers: [click, order, new_status]
Widgets(page) ==
    {[click |-> "open", order |-> 0, new_status |-> "none"],
     [click |-> "create", order |-> 0, new_status |-> "none"]}
    \cup {[click |-> "btn", order |-> o, new_status |-> n] :
            o \in {o \in Orders : page.view[o] \in AvailableStatuses},
            n \in AvailableStatuses}
    \cup {[click |-> "restore", order |-> o, new_status |-> "none"] :
            o \in {o \in Orders : page.view[o] = "Returned"}}
    \cup {[click |-> "return", order |-> o, new_status |-> "none"] :
            o \in {o \in Orders : page.view[o] = "Completed"}}
    \cup {[click |-> "confirm_return", order |-> o, new_status |-> "none"] :
            o \in {o \in Orders : page.confirm = o}}

\* st.button(..., key=...) reads True only in the rerun its click started
ButtonTrue(r, key) == r.click = key


\* the status the script of a rerun writes, "none" if it writes nothing: the
\* form handler, then for the order the branches of `with col4:`
WrittenStatus(r) ==
    IF ButtonTrue(r, "create")
    THEN IF customers # {} THEN "Pending" ELSE "none"
    ELSE IF r.order = 0 THEN "none"
    ELSE LET current_status == r.cur[r.order]
         IN  IF current_status = "Returned"
             THEN IF ButtonTrue(r, "restore") THEN "Completed" ELSE "none"
             ELSE IF current_status \notin AvailableStatuses THEN "none"
             ELSE IF ButtonTrue(r, "btn") /\ r.new_status # current_status
                  THEN r.new_status
             ELSE IF /\ current_status = "Completed"
                     /\ ButtonTrue(r, "return")
                     /\ ButtonTrue(r, "confirm_return")
                  THEN "Returned"
             ELSE "none"

\* the row a write of the rerun goes to: a new order_id for the INSERT
WrittenOrder(r) ==
    IF ButtonTrue(r, "create")
    THEN IF \E o \in Orders : repair_orders[o] = "absent"
         THEN CHOOSE o \in Orders :
                /\ repair_orders[o] = "absent"
                /\ \A n \in Orders : repair_orders[n] = "absent" => o <= n
         ELSE 0
    ELSE r.order

\* a click on a widget of the page starts a rerun; the script draws the
\* sidebar and reads the orders (only on a working connection is there a list)
RepairClick(s) ==
    /\ pc[s] = "idle"
    /\ repair_run[s].step = "idle"
    /\ \E w \in Widgets(repair_page[s]) :
        repair_run' = [repair_run EXCEPT ![s] =
            [step |-> "loaded", click |-> w.click, order |-> w.order,
             new_status |-> w.new_status,
             cur |-> IF conn = "ok" THEN repair_orders ELSE NoPage.view,
             wrote |-> "none"]]
    /\ stats_cache' = CacheAfterCall
    /\ UNCHANGED <<posvars, customers, conn, now, files, receipt_file, last_receipt, stats_seen,
                   repair_orders, repair_page>>

\* the rest of the rerun: the branch of the clicked button runs its UPDATE or
\* INSERT (which commits or raises inside run_query) and st.rerun() draws the
\* page anew; a rerun that writes nothing draws what it read, with the Confirm
\* Return button inside the branch of a Mark as Returned that read True
RepairHandle(s) ==
    /\ repair_run[s].step = "loaded"
    /\ LET r == repair_run[s]
           status == WrittenStatus(r)
           o == WrittenOrder(r)
       IN  IF status # "none" /\ o # 0
           THEN \/ /\ conn = "ok"
                   /\ repair_orders' = [repair_orders EXCEPT ![o] = status]
                   /\ repair_page' = [repair_page EXCEPT ![s] =
                            [view |-> repair_orders', confirm |-> 0]]
                   /\ repair_run' = [repair_run EXCEPT ![s] =
                            [NoRun EXCEPT !.click = r.click, !.wrote = status]]
                   /\ UNCHANGED conn
                \/ /\ conn' = "failed"
                   /\ repair_page' = [repair_page EXCEPT ![s] = NoPage]
                   /\ repair_run' = [repair_run EXCEPT ![s] =
                            [NoRun EXCEPT !.click = r.click]]
                   /\ UNCHANGED repair_orders
           ELSE /\ repair_page' = [repair_page EXCEPT ![s] =
                        [view |-> r.cur,
                         confirm |-> IF /\ r.order # 0
                                        /\ r.cur[r.order] = "Completed"
                                        /\ ButtonTrue(r, "return")
                                     THEN r.order ELSE 0]]
                /\ repair_run' = [repair_run EXCEPT ![s] =
                        [NoRun EXCEPT !.click = r.click]]
                /\ UNCHANGED <<repair_orders, conn>>
    /\ UNCHANGED <<posvars, customers, now, files, receipt_file, last_receipt,
                   stats_cache, stats_seen>>

\* the tables the application is started on: registered customers, and
\* repair orders 1..n in any status
InitRepair ==
    /\ products = InitProducts
    /\ customers = InitCustomers
    /\ sales = <<>>
    /\ conn = "ok"
    /\ cart = [s \in Sessions |-> <<>>]
    /\ pc = [s \in Sessions |-> "idle"]
    /\ idx = [s \in Sessions |-> 0]
    /\ selected_customer_id = [s \in Sessions |-> None]
    /\ sale = [s \in Sessions |-> NoSale]
    /\ added = [s \in Sessions |-> NoAdds]
    /\ now = 0
    /\ files = [n \in {} |-> NoDocument]
    /\ receipt_file = [s \in Sessions |-> 0]
    /\ last_receipt = [s \in Sessions |-> NoReceipt]
    /\ stats_cache = NoStats
    /\ stats_seen = [s \in Sessions |-> NotSeen]
    /\ repair_orders \in {f \in [Orders -> Statuses \cup {"absent"}] :
            \A o, n \in Orders : (o < n /\ f[o] = "absent") => f[n] = "absent"}
    /\ repair_page = [s \in Sessions |-> NoPage]
    /\ repair_run = [s \in Sessions |-> NoRun]

NextRepair == \E s \in Sessions : RepairClick(s) \/ RepairHandle(s)

SpecRepair == InitRepair /\ [][NextRepair]_vars

\* ------------------------------------------- remove with any index
\* st.session_state.cart.pop(idx) for an index at or past the end as well: the
\* page draws a remove button for each line only, so there the index is valid
RemoveIndex(s) ==
    /\ pc[s] = "idle"
    /\ conn = "ok"
    /\ CartBlockShown(s)
    /\ \E k \in 1..(MaxItems + 1) :
        /\ cart' = [cart EXCEPT ![s] = Pop(cart[s], k).cart]
        /\ added' = [added EXCEPT ![s] =
                        IF k \in 1..Len(cart[s])
                        THEN [@ EXCEPT ![cart[s][k].product_id] = 0]
                        ELSE @]
        /\ sale' = [sale EXCEPT ![s] =
                    [NoSale EXCEPT
                        !.outcome = IF Pop(cart[s], k).error = None
                                    THEN "removed" ELSE Pop(cart[s], k).error,
                        !.lines = cart[s], !.index = k]]
    /\ UNCHANGED <<products, customers, sales, conn, pc, idx, selected_customer_id>>
    /\ Sidebar

NextRemove == \E s \in Sessions : AddToCart(s) \/ ClearCart(s) \/ RemoveIndex(s)

SpecRemove == Init /\ [][NextRemove]_vars

\* ------------------------------------------------- reading the history
\* the session's last rerun was a checkout that has ended
Ended(s) == sale[s].outcome \in {"success", "failed"}

\* the checkout the session runs or ran found every line's quantity in stock
\* when it began
Enough(s) ==
    \A k \in 1..Len(sale[s].lines) : sale[s].lines[k].quantity <= sale[s].avail[k]

\* the statements of the session's checkout that committed, and those that raised
Committed(s, op) == SelectSeq(sale[s].log, LAMBDA e : e.op = op /\ e.ok)
Raised(s) == SelectSeq(sale[s].log, LAMBDA e : ~e.ok)

\* units the checkout took from a product's stock, and units it recorded as sold
Deducted(s, p) ==
    LET u == SelectSeq(Committed(s, "update"), LAMBDA e : e.product_id = p)
    IN  SumSeq([k \in 1..Len(u) |-> u[k].effect])
Recorded(s, p) ==
    LET r == SelectSeq(Committed(s, "insert"), LAMBDA e : e.product_id = p)
    IN  SumSeq([k \in 1..Len(r) |-> r[k].effect.quantity])

LinesOf(c, p) == {k \in 1..Len(c) : c[k].product_id = p}

\* ---------------------------------------------------------------- claims

\* C1: in every reachable state every product's quantity on hand is >= 0.
\* The commit loop decrements without reading the stock, so this fails.
C1_StockNeverNegative == \A p \in Products : products[p].quantity >= 0

\* C2: a checkout that finds a line's quantity above the current stock ends
\* with InsufficientStock and commits no inventory decrement and no sales row.
\* The code has no validation step, so this fails.
C2_ShortCheckoutWritesNothing ==
    \A s \in Sessions :
        (Ended(s) /\ ~Enough(s)) =>
            /\ sale[s].outcome = "InsufficientStock"
            /\ Committed(s, "update") = <<>>
            /\ Committed(s, "insert") = <<>>

\* C3: two checkouts that both begin with 5 in stock of the same product and
\* request 3 each: exactly one succeeds, the stock ends at 2 and one sales row
\* is appended.  Both succeed in the code, so this fails.
C3_Concurrent(p) ==
    \A s \in Sessions :
        /\ Ended(s)
        /\ Raised(s) = <<>>
        /\ Len(sale[s].lines) = 1
        /\ sale[s].lines[1].product_id = p
        /\ sale[s].lines[1].quantity = 3
        /\ sale[s].avail[1] = 5

C3_OneOfTwoConcurrentSucceeds ==
    \A p \in Products :
        C3_Concurrent(p) =>
            /\ Cardinality({s \in Sessions : sale[s].outcome = "success"}) = 1
            /\ products[p].quantity = 2
            /\ Len(SelectSeq(sales, LAMBDA r : r.product_id = p)) = 1

\* C4: when a checkout has ended, what it deducted from each product's stock
\* equals what its sales rows record for that product, write failures included.
\* The two statements of a line are independent run_query calls, so this fails.
C4_DecrementMatchesLedger ==
    \A s \in Sessions :
        Ended(s) => \A p \in Products : Deducted(s, p) = Recorded(s, p)

\* C5: a checkout with every line in stock and no failed store write deducts
\* each line's quantity, appends one sales row per line with the line's
\* product_id, quantity and total, and leaves the cart empty.  The cart is not
\* emptied when the receipt raises (C13), so this fails.
C5_LinesCommitted(s) ==
    /\ Len(Committed(s, "update")) = Len(sale[s].lines)
    /\ Len(Committed(s, "insert")) = Len(sale[s].lines)
    /\ \A k \in 1..Len(sale[s].lines) :
        LET item == sale[s].lines[k]
        IN  /\ Committed(s, "update")[k].product_id = item.product_id
            /\ Committed(s, "update")[k].effect = item.quantity
            /\ Committed(s, "insert")[k].effect.product_id = item.product_id
            /\ Committed(s, "insert")[k].effect.quantity = item.quantity
            /\ Committed(s, "insert")[k].effect.total_price = item.total

C5_CheckoutCommitsAndClears ==
    \A s \in Sessions :
        (Ended(s) /\ Enough(s) /\ Raised(s) = <<>>) =>
            C5_LinesCommitted(s) /\ cart[s] = <<>>

\* C6: no checkout runs on an empty cart: the commit loop runs, and a checkout
\* is on record, only for a cart that held at least one line.
C6_NoCheckoutOfEmptyCart ==
    \A s \in Sessions :
        /\ pc[s] # "idle" => cart[s] # <<>>
        /\ sale[s].outcome \in {"running", "success", "failed"} =>
                sale[s].lines # <<>>
        /\ sale[s].log # <<>> => sale[s].lines # <<>>

\* a checkout has just emptied the cart and the page is still live
C6_Witness ==
    \E s \in Sessions :
        /\ pc[s] = "idle" /\ cart[s] = <<>> /\ sale[s].outcome = "success"
        /\ InStock # {} /\ conn = "ok"

\* C7: after any adds of one product with no remove, clear or checkout between
\* them, the cart holds exactly one line of the product and its quantity is the
\* sum of the quantities added.
C7_AddsSumIntoOneLine ==
    \A s \in Sessions : \A p \in Products :
        IF added[s][p] = 0
        THEN LinesOf(cart[s], p) = {}
        ELSE /\ Cardinality(LinesOf(cart[s], p)) = 1
             /\ \A k \in LinesOf(cart[s], p) : cart[s][k].quantity = added[s][p]

\* the last rerun added to a line that was there, and the line holds the sum
C7_Witness ==
    \E s \in Sessions : \E p \in Products :
        /\ sale[s].outcome = "merged"
        /\ added[s][p] = MaxLineQty
        /\ QtyInCart(cart[s], p) = MaxLineQty

\* C8: no two lines of a cart have the same product_id.
C8_OneLinePerProduct ==
    \A s \in Sessions : \A j, k \in 1..Len(cart[s]) :
        cart[s][j].product_id = cart[s][k].product_id => j = k

\* a merge add into a cart of two lines
C8_Witness ==
    \E s \in Sessions : Len(cart[s]) = 2 /\ sale[s].outcome = "merged"

\* C9: every cart line's total is its quantity times its unit price.
C9_LineTotal ==
    \A s \in Sessions : \A k \in 1..Len(cart[s]) :
        cart[s][k].total = cart[s][k].quantity * cart[s][k].price

\* a merge add has changed the quantity of a line
C9_Witness ==
    \E s \in Sessions : \E k \in 1..Len(cart[s]) :
        /\ sale[s].outcome = "merged"
        /\ cart[s][k].quantity >= 2
        /\ cart[s][k].total = cart[s][k].quantity * cart[s][k].price

\* C10: every cart line's quantity is at least 1.
C10_QuantityPositive ==
    \A s \in Sessions : \A k \in 1..Len(cart[s]) : cart[s][k].quantity >= 1

\* an add of quantity 1 has just appended a second line
C10_Witness ==
    \E s \in Sessions :
        /\ Len(cart[s]) = 2
        /\ cart[s][2].quantity = 1
        /\ sale[s].outcome = "added"

\* C11: once a store write of a checkout has failed, the checkout issues no
\* later write, for that line or a later one, and the rows it committed before
\* stay in the ledger.  run_query returns None on a failure and the loop goes
\* on to the next statement, so this fails.
C11_StopsAtFailedWrite ==
    \A s \in Sessions :
        LET log == sale[s].log
        IN  /\ \A k \in 1..Len(log) : ~log[k].ok => k = Len(log)
            /\ \A k \in 1..Len(log) :
                    (log[k].op = "insert" /\ log[k].ok) =>
                        /\ log[k].pos <= Len(sales)
                        /\ sales[log[k].pos] = log[k].effect

\* C12: a checkout shows the success message only if every decrement and every
\* append of every line succeeded; if a write failed its outcome is a failure.
\* The results of run_query are not looked at, so this fails.
C12_SuccessOnlyIfEveryWriteSucceeded ==
    \A s \in Sessions :
        /\ sale[s].outcome = "success" =>
                /\ Raised(s) = <<>>
                /\ Len(Committed(s, "update")) = Len(sale[s].lines)
                /\ Len(Committed(s, "insert")) = Len(sale[s].lines)
        /\ (Ended(s) /\ Raised(s) # <<>>) => sale[s].outcome = "failed"

\* the commit loop of the session's checkout went through every line and no
\* statement raised
C13_CommitCompleted(s) ==
    /\ sale[s].lines # <<>>
    /\ Len(sale[s].log) = 2 * Len(sale[s].lines)
    /\ Raised(s) = <<>>

\* C13: when a checkout whose commit loop completed for every line has ended,
\* the cart is empty whether or not the receipt was generated, and the rows it
\* appended are in the ledger.  When generate_professional_receipt raises the
\* cart reset is skipped, so this fails.
C13_CartEmptyAfterCommit ==
    \A s \in Sessions :
        (Ended(s) /\ C13_CommitCompleted(s)) =>
            /\ cart[s] = <<>>
            /\ \A k \in 1..Len(sale[s].log) :
                    sale[s].log[k].op = "insert" =>
                        sales[sale[s].log[k].pos] = sale[s].log[k].effect

\* C14: after a checkout whose commit loop completed, the session's next
\* action does not enter the commit loop again (Complete Sale pressed again,
\* with nothing added in between, writes nothing), and no step changes or
\* deletes a row of the ledger.  After a receipt failure the cart is still
\* there and Complete Sale commits its lines a second time, so this fails.
C14_SaleRecordedOnce ==
    [][ /\ \A s \in Sessions :
            (Ended(s) /\ C13_CommitCompleted(s)) => pc'[s] = "idle"
        /\ Len(sales') >= Len(sales)
        /\ \A k \in 1..Len(sales) : sales'[k] = sales[k] ]_vars

\* C15: a checkout that found a line's quantity above the current stock leaves
\* the cart as it was before it.  There is no validation (C2): the checkout
\* commits and empties the cart, so this fails.
C15_ShortCheckoutKeepsCart ==
    \A s \in Sessions :
        (Ended(s) /\ ~Enough(s)) => cart[s] = sale[s].lines

\* the customer_id of the customer whose option was selected, None for walk-in
C16_ChosenCustomerId(d) ==
    IF d = WalkIn
    THEN None
    ELSE (CHOOSE c \in customers : CustomerDisplay(c) = d).customer_id

\* C16: every row a checkout appends has customer_id null if "Walk-in
\* Customer" was selected and the selected customer's id otherwise, and for a
\* walk-in the renderer is handed the name "Walk-in Customer" with no contact
\* and no address.  The id is cut out of the option's text at the first
\* "(ID: ", which a customer's name may hold, so this fails.
C16_CustomerTagged ==
    \A s \in Sessions :
        /\ \A k \in 1..Len(sale[s].log) :
                (sale[s].log[k].op = "insert" /\ sale[s].log[k].ok) =>
                    sale[s].log[k].effect.customer_id =
                        C16_ChosenCustomerId(sale[s].display)
        /\ (sale[s].outcome \in {"running", "success", "failed"}
                /\ sale[s].display = WalkIn) =>
                    sale[s].customer =
                        [given |-> TRUE, name |-> WalkIn,
                         contact |-> None, address |-> None]

\* C17: the statements of a checkout are issued line by line in cart order,
\* the decrement of a line before its append and both before any statement of
\* a later line, and the rows it appended stand in the ledger in cart order.
C17_CommittedInCartOrder ==
    \A s \in Sessions :
        LET log == sale[s].log
        IN  /\ \A k \in 1..Len(log) :
                    /\ log[k].line = (k + 1) \div 2
                    /\ log[k].op = IF k % 2 = 1 THEN "update" ELSE "insert"
                    /\ log[k].product_id = sale[s].lines[log[k].line].product_id
            /\ \A j, k \in 1..Len(log) :
                    (j < k /\ log[j].op = "insert" /\ log[j].ok
                           /\ log[k].op = "insert" /\ log[k].ok) =>
                        /\ log[j].pos < log[k].pos
                        /\ sales[log[j].pos].product_id =
                                sale[s].lines[log[j].line].product_id
                        /\ sales[log[k].pos].product_id =
                                sale[s].lines[log[k].line].product_id

\* a checkout of two lines has ended with both rows appended
C17_Witness ==
    \E s \in Sessions :
        /\ Ended(s)
        /\ Len(sale[s].lines) = 2
        /\ Len(sale[s].log) = 4
        /\ Len(Committed(s, "insert")) = 2

\* C18: a step of Add to Cart, remove or Clear Cart leaves the products table
\* and the sales table as they were; they change only in a step of a commit
\* loop.
C18_CartActionsLeaveStoreAlone ==
    [][ /\ \A s \in Sessions :
            (pc[s] = "idle" /\ pc'[s] = "idle"
                /\ (cart'[s] # cart[s] \/ sale'[s] # sale[s])) =>
                    (products' = products /\ sales' = sales)
        /\ (products' # products \/ sales' # sales) =>
                \E s \in Sessions : pc[s] \in {"update", "insert"} ]_vars

\* the last rerun was a cart action, on a store that checkouts have changed
C18_Witness ==
    \E s \in Sessions :
        /\ sale[s].outcome \in {"added", "merged", "removed"}
        /\ sales # <<>>
        /\ products # InitProducts

\* C19: a remove of line k leaves the lines before k where they were and moves
\* each line after k up by one, unchanged; an add that merges leaves every
\* line at its position and changes the merged line only.
C19_RemoveTakesThatLine ==
    [][ \A s \in Sessions :
            /\ (sale'[s].outcome = "removed" /\ cart'[s] # cart[s]) =>
                    LET k == sale'[s].index
                    IN  /\ k \in 1..Len(cart[s])
                        /\ Len(cart'[s]) = Len(cart[s]) - 1
                        /\ \A j \in 1..(k - 1) : cart'[s][j] = cart[s][j]
                        /\ \A j \in k..Len(cart'[s]) : cart'[s][j] = cart[s][j + 1]
            /\ (sale'[s].outcome = "merged" /\ cart'[s] # cart[s]) =>
                    /\ Len(cart'[s]) = Len(cart[s])
                    /\ \A j \in 1..Len(cart[s]) :
                            cart'[s][j].product_id = cart[s][j].product_id
                    /\ Cardinality({j \in 1..Len(cart[s]) :
                                        cart'[s][j] # cart[s][j]}) = 1 ]_vars

\* the first of two lines has been removed
C19_Witness ==
    \E s \in Sessions :
        /\ sale[s].outcome = "removed"
        /\ sale[s].index = 1
        /\ Len(cart[s]) = 1

C21_SumOfLineTotals(c) ==
    LET f[k \in 0..Len(c)] == IF k = 0 THEN 0 ELSE f[k - 1] + c[k].total
    IN  f[Len(c)]

\* C21: the cart total is the sum of the totals of its lines, 0 for an empty
\* cart, and the total a checkout hands to the receipt and shows on success is
\* that sum for the cart it checks out.
C21_TotalIsSumOfLineTotals ==
    \A s \in Sessions :
        /\ GrandTotal(cart[s]) = C21_SumOfLineTotals(cart[s])
        /\ cart[s] = <<>> => GrandTotal(cart[s]) = 0
        /\ sale[s].outcome \in {"running", "success", "failed"} =>
                sale[s].total = C21_SumOfLineTotals(sale[s].lines)

\* a checkout of two lines, one of them of more than one unit, has shown its total
C21_Witness ==
    \E s \in Sessions :
        /\ sale[s].outcome = "success"
        /\ Len(sale[s].lines) = 2
        /\ sale[s].lines[1].quantity >= 2
        /\ sale[s].total = sale[s].lines[1].total + sale[s].lines[2].total

\* an empty cart on a live page with products in stock, and room in the model
C22_EmptyAndLive(s) ==
    /\ pc[s] = "idle"
    /\ cart[s] = <<>>
    /\ conn = "ok"
    /\ InStock # {}
    /\ Len(sales) + CartLines(Sessions) < MaxItems

\* C22: a cart goes from empty to non-empty only by an add; it goes from
\* non-empty to empty only by a remove of its last line, a clear or a checkout
\* that completed, and each of these does empty it; and an empty cart, however
\* it became empty, can be added to again.
C22_CartStateMachine ==
    /\ [](\A s \in Sessions : C22_EmptyAndLive(s) => ENABLED AddToCart(s))
    /\ [][ \A s \in Sessions :
            /\ (cart[s] = <<>> /\ cart'[s] # <<>>) =>
                    (sale'[s].outcome = "added" /\ Len(cart'[s]) = 1)
            /\ (cart[s] # <<>> /\ cart'[s] = <<>>) =>
                    \/ sale'[s].outcome = "removed" /\ Len(cart[s]) = 1
                    \/ sale'[s].outcome = "none"
                    \/ sale'[s].outcome = "success"
            /\ (cart'[s] # cart[s] /\ sale'[s].outcome = "removed"
                    /\ Len(cart[s]) = 1) => cart'[s] = <<>>
            /\ (cart'[s] # cart[s] /\ sale'[s].outcome = "none") =>
                    cart'[s] = <<>>
            /\ (sale'[s] # sale[s] /\ sale'[s].outcome = "success") =>
                    cart'[s] = <<>> ]_vars

\* a checkout has emptied the cart and Add to Cart can be pressed again
C22_Witness ==
    \E s \in Sessions :
        /\ sale[s].outcome = "success"
        /\ cart[s] = <<>>
        /\ sales # <<>>
        /\ ENABLED AddToCart(s)

\* C23: a line's name and price are those read from the products table when
\* the line was added, and no later step changes them, neither a merge add nor
\* a change of the price in the table; the total_price of a row appended at
\* checkout is the line's quantity times that price.
C23_PriceSnapshot ==
    [][ \A s \in Sessions :
            /\ \A k \in 1..Len(cart'[s]) :
                    LET line == cart'[s][k]
                        old == {j \in 1..Len(cart[s]) :
                                    cart[s][j].product_id = line.product_id}
                    IN  /\ \A j \in old :
                                /\ line.name = cart[s][j].name
                                /\ line.price = cart[s][j].price
                        /\ old = {} =>
                                /\ line.name = products[line.product_id].name
                                /\ line.price = products[line.product_id].price
            /\ (pc[s] = "insert" /\ sale'[s] # sale[s]
                    /\ Len(sales') > Len(sales)) =>
                    LET row == sales'[Len(sales')]
                        line == cart[s][idx[s]]
                    IN  /\ row.product_id = line.product_id
                        /\ row.total_price = line.quantity * line.price ]_vars

\* a merge add after the price in the table changed: the line keeps its price
C23_Witness ==
    \E s \in Sessions : \E k \in 1..Len(cart[s]) :
        /\ sale[s].outcome = "merged"
        /\ cart[s][k].price = InitProducts[cart[s][k].product_id].price
        /\ products[cart[s][k].product_id].price # cart[s][k].price

\* C24: a checkout that has entered its commit loop ends; it issues at most
\* one decrement and one append for each line of the cart, and no statement
\* twice for the same line.
C24_CheckoutEnds ==
    /\ \A s \in Sessions : (pc[s] # "idle") ~> (pc[s] = "idle")
    /\ [](\A s \in Sessions :
            LET log == sale[s].log
            IN  /\ Len(log) <= 2 * Len(sale[s].lines)
                /\ \A j, k \in 1..Len(log) :
                        (log[j].line = log[k].line /\ log[j].op = log[k].op)
                            => j = k)

\* a checkout of two lines has ended although a statement raised
C24_Witness ==
    \E s \in Sessions :
        /\ Ended(s)
        /\ pc[s] = "idle"
        /\ Len(sale[s].lines) = 2
        /\ Len(sale[s].log) = 4
        /\ Raised(s) # <<>>

\* C26: after an add of a product the quantity of its line is at most the
\* stock the page read for that product in that rerun.  max_qty bounds the
\* quantity input only; a merge adds it to the line unchecked, so this fails.
C26_LineWithinStockRead ==
    [][ \A s \in Sessions :
            (cart'[s] # cart[s] /\ sale'[s].outcome \in {"added", "merged"}) =>
                \A k \in 1..Len(cart'[s]) :
                    (k > Len(cart[s]) \/ cart'[s][k] # cart[s][k]) =>
                        cart'[s][k].quantity <=
                            products[cart'[s][k].product_id].quantity ]_vars

\* C27: a statement that raised inside run_query leaves the cached connection
\* usable: the connection is not failed afterwards and the next statement of
\* the checkout commits.  run_query never rolls back, so this fails.
C27_FailureDoesNotPoison ==
    /\ (\E s \in Sessions : Raised(s) # <<>>) => conn = "ok"
    /\ \A s \in Sessions : \A k \in 1..(Len(sale[s].log) - 1) :
            ~sale[s].log[k].ok => sale[s].log[k + 1].ok

\* ------------------------------------------------- the dashboard over time
\* The clock advances in steps of half a ttl; any session can rerun the script
\* without acting on the page, which draws the sidebar from get_dashboard_stats.
Tick ==
    /\ now < MaxTicks * (Ttl \div 2)
    /\ now' = now + Ttl \div 2
    /\ UNCHANGED <<products, customers, sales, conn, cart, pc, idx,
                   selected_customer_id, sale, added, files, receipt_file, last_receipt,
                   stats_cache, stats_seen, repair_orders, repair_page,
                   repair_run>>

ViewSidebar(s) ==
    /\ pc[s] = "idle"
    /\ stats_seen' = [stats_seen EXCEPT ![s] =
            [read |-> TRUE, value |-> GetDashboardStats, actual |-> CurrentStats]]
    /\ stats_cache' = CacheAfterCall
    /\ UNCHANGED <<products, customers, sales, conn, cart, pc, idx,
                   selected_customer_id, sale, added, now, files, receipt_file, last_receipt,
                   repair_orders, repair_page, repair_run>>

NextDash ==
    \/ Tick
    \/ \E s \in Sessions : ViewSidebar(s)
    \/ AddToCart(Cashier)
    \/ CompleteSale(Cashier)
    \/ UpdateInventory(Cashier)
    \/ RecordSale(Cashier)
    \/ GenerateReceipt(Cashier)

SpecDash == Init /\ [][NextDash]_vars

\* ------------------------------------------- the receipt file, step by step
\* generate_professional_receipt names the file after the clock's second and
\* writes it into the working directory all sessions share; Complete Sale then
\* opens that name, stores what it read and removes the name.
ReceiptDocument(s) ==
    [items |-> [k \in 1..Len(cart[s]) |->
                    [name |-> cart[s][k].name, quantity |-> cart[s][k].quantity,
                     total |-> cart[s][k].total]],
     total |-> GrandTotal(cart[s]),
     customer |-> sale[s].customer]

\* files after canvas.Canvas(filename).save(): created or overwritten
SaveFile(name, doc) ==
    [n \in DOMAIN files \cup {name} |-> IF n = name THEN doc ELSE files[n]]

\* files after os.remove(name)
RemoveFile(name) == [n \in DOMAIN files \ {name} |-> files[n]]

\* the end of the success path: st.session_state.cart = []
CartReset(s, r) ==
    /\ sale' = [sale EXCEPT ![s].outcome = "success", ![s].receipt = r]
    /\ cart' = [cart EXCEPT ![s] = <<>>]
    /\ added' = [added EXCEPT ![s] = NoAdds]
    /\ pc' = [pc EXCEPT ![s] = "idle"]
    /\ idx' = [idx EXCEPT ![s] = 0]
    /\ selected_customer_id' = [selected_customer_id EXCEPT ![s] = None]
    /\ receipt_file' = [receipt_file EXCEPT ![s] = 0]

\* receipt_file = generate_professional_receipt(...), or it raises and the
\* outer except ends the handler with the cart kept
WriteReceiptFile(s) ==
    /\ pc[s] = "receipt"
    /\ \/ /\ files' = SaveFile(now, ReceiptDocument(s))
          /\ receipt_file' = [receipt_file EXCEPT ![s] = now]
          /\ pc' = [pc EXCEPT ![s] = "read"]
          /\ UNCHANGED <<sale, idx, selected_customer_id>>
       \/ /\ sale' = [sale EXCEPT ![s].outcome = "failed", ![s].receipt = "raised"]
          /\ pc' = [pc EXCEPT ![s] = "idle"]
          /\ idx' = [idx EXCEPT ![s] = 0]
          /\ selected_customer_id' = [selected_customer_id EXCEPT ![s] = None]
          /\ UNCHANGED <<files, receipt_file>>
    /\ UNCHANGED <<products, customers, sales, conn, cart, added, now,
                   last_receipt, stats_cache, stats_seen, repair_orders,
                   repair_page, repair_run>>

\* with open(receipt_file, "rb"): the data is stored in last_receipt, or the
\* name is gone, open raises, the warning is shown and the cart is reset
ReadReceiptFile(s) ==
    /\ pc[s] = "read"
    /\ IF receipt_file[s] \in DOMAIN files
       THEN /\ last_receipt' = [last_receipt EXCEPT ![s] =
                    [stored |-> TRUE, data |-> files[receipt_file[s]],
                     filename |-> receipt_file[s], total |-> GrandTotal(cart[s])]]
            /\ pc' = [pc EXCEPT ![s] = "remove"]
            /\ UNCHANGED <<sale, cart, added, idx, selected_customer_id,
                           receipt_file>>
       ELSE /\ CartReset(s, "unreadable")
            /\ UNCHANGED last_receipt
    /\ UNCHANGED <<products, customers, sales, conn, now, files, stats_cache,
                   stats_seen, repair_orders, repair_page, repair_run>>

\* os.remove(receipt_file) inside try / except: pass, then the cart is reset
RemoveReceiptFile(s) ==
    /\ pc[s] = "remove"
    /\ files' = RemoveFile(receipt_file[s])
    /\ CartReset(s, "stored")
    /\ UNCHANGED <<products, customers, sales, conn, now, last_receipt,
                   stats_cache, stats_seen, repair_orders, repair_page,
                   repair_run>>

NextReceipt ==
    \/ Tick
    \/ \E s \in Sessions :
            \/ AddToCart(s)
            \/ CompleteSale(s)
            \/ UpdateInventory(s)
            \/ RecordSale(s)
            \/ WriteReceiptFile(s)
            \/ ReadReceiptFile(s)
            \/ RemoveReceiptFile(s)

SpecReceipt == Init /\ [][NextReceipt]_vars

\* the status changes the state machine of a repair order has
C29_Allowed(a, b) ==
    \/ a = "absent" /\ b = "Pending"
    \/ a \in {"Pending", "In Progress", "Completed"}
            /\ b \in {"Pending", "In Progress", "Completed"}
    \/ a = "Completed" /\ b = "Returned"
    \/ a = "Returned" /\ b = "Completed"

\* C29: every change of an order's status in the table is one of the state
\* machine: created as Pending; Pending, In Progress and Completed among each
\* other; Returned only from Completed; from Returned only to Completed.
C29_StatusMachine ==
    [][ \A o \in Orders :
            repair_orders'[o] # repair_orders[o] =>
                C29_Allowed(repair_orders[o], repair_orders'[o]) ]_vars

\* a Restore has been written, and an order has been created as Pending
C29_Witness ==
    \E s, u \in Sessions :
        /\ repair_run[s].click = "restore"
        /\ repair_run[s].wrote = "Completed"
        /\ repair_run[u].click \in {"restore", "create", "btn"}
        /\ \E o \in Orders : repair_orders[o] \in {"Completed", "Pending"}

\* C30: when the rerun started by a click on Confirm Return has ended, on a
\* working connection and with the order still Completed, the UPDATE to
\* 'Returned' has been executed.  In that rerun Mark as Returned reads False,
\* so the Confirm Return button inside its branch is never reached and
\* nothing is written: this fails.
C30_ConfirmReturnWrites ==
    \A s \in Sessions :
        (/\ repair_run[s].step = "idle"
         /\ repair_run[s].click = "confirm_return"
         /\ conn = "ok"
         /\ \A o \in Orders : repair_orders[o] = "Completed") =>
            repair_run[s].wrote = "Returned"

\* C25: the statistics a session reads from get_dashboard_stats on a working
\* connection are those of the tables at the time of the read, so every
\* committed write is included.  The cache is never invalidated, so this fails
\* for a read within ttl seconds of the call that filled the cache.
C25_StatsIncludeWrites ==
    \A s \in Sessions :
        (stats_seen[s].read /\ conn = "ok") =>
            stats_seen[s].value = stats_seen[s].actual

\* C28: what a session has stored as last_receipt when it removes its file is
\* the document of its own cart, total and customer, and a sale that ended
\* successfully has stored its receipt.  Two checkouts in the same clock second
\* use the same file name, so this fails.
C28_OwnReceiptStored ==
    \A s \in Sessions :
        /\ pc[s] = "remove" => last_receipt[s].data = ReceiptDocument(s)
        /\ (pc[s] = "idle" /\ sale[s].outcome = "success") =>
                sale[s].receipt = "stored"
====
